---- MODULE Spec2Model ----
(***************************************************************************)
(* Model of pagerduty_mcp_server/escalation_policies.py: the three         *)
(* operations list_escalation_policies, show_escalation_policy and         *)
(* fetch_escalation_policy_ids, executed one statement at a time, with the *)
(* collaborators (client.get_api_client, pd_client.list_all/jget,          *)
(* parse_escalation_policy, utils.api_response_handler,                    *)
(* utils.handle_api_error) as an environment whose calls are logged.       *)
(***************************************************************************)
EXTENDS Integers, Sequences, FiniteSets, TLC

VARIABLES pc, top, listArgs, policy_id, user_id, params, response, responded,
          parsed, idx, exc, results, outcome,
          clientCalls, requests, parseCalls, routerCalls

vars == <<pc, top, listArgs, policy_id, user_id, params, response, responded,
          parsed, idx, exc, results, outcome,
          clientCalls, requests, parseCalls, routerCalls>>

----------------------------------------------------------------------------
(* Bounds and the input universe                                           *)

MaxRecords == 2

PolicyIds == {"EP1", "EP2"}

(* Optional[...] arguments: present = FALSE is None / argument omitted.    *)
NoneStr == [present |-> FALSE, val |-> ""]
SomeStr(s) == [present |-> TRUE, val |-> s]
NoneList == [present |-> FALSE, val |-> <<>>]
SomeList(l) == [present |-> TRUE, val |-> l]
NoneInt == [present |-> FALSE, val |-> 0]
SomeInt(n) == [present |-> TRUE, val |-> n]

QueryArgs == {NoneStr, SomeStr(""), SomeStr("q")}
UserIdsArgs == {NoneList, SomeList(<<>>), SomeList(<<"U1">>), SomeList(<<"U1", "U2">>)}
TeamIdsArgs == {NoneList, SomeList(<<>>), SomeList(<<"T1", "T2">>)}
LimitArgs == {NoneInt, SomeInt(0), SomeInt(1)}
PolicyIdArgs == {NoneStr, SomeStr("")} \cup {SomeStr(p) : p \in PolicyIds}
UserIdArgs == {NoneStr, SomeStr(""), SomeStr("U1"), SomeStr("U2")}

(* Python truthiness of the argument values ("if query:", "if not id:").   *)
TruthyStr(o) == o.present /\ o.val # ""
TruthyList(o) == o.present /\ o.val # <<>>
TruthyInt(o) == o.present /\ o.val # 0

(* Raw records of the remote service; a malformed one makes the normalizer *)
(* raise.                                                                  *)
RawRecords == [id : PolicyIds, malformed : BOOLEAN]

RECURSIVE SeqsUpTo(_, _)
SeqsUpTo(S, n) ==
    IF n = 0 THEN {<<>>}
    ELSE LET shorter == SeqsUpTo(S, n - 1)
         IN shorter \cup {Append(s, x) : s \in {t \in shorter : Len(t) = n - 1}, x \in S}

ListResponses == SeqsUpTo(RawRecords, MaxRecords)

EmptyDict == [k \in {} |-> 0]

(* Bodies jget can return: with or without the escalation_policy field.    *)
Bodies == {("escalation_policy" :> r) : r \in RawRecords} \cup {("error" :> "not found")}

----------------------------------------------------------------------------
(* Exceptions                                                              *)

Exc(type, msg) == [type |-> type, msg |-> msg, cause |-> <<>>]

PolicyIdEmpty == Exc("ValueError", <<"policy_id cannot be empty">>)
UserIdEmpty == Exc("ValueError", <<"user_id cannot be empty">>)
ClientInitError == Exc("ClientInitError", <<"no api client">>)
ClientError == Exc("ClientError", <<"request failed">>)
ParseError == Exc("ParseError", <<"cannot normalize record">>)

NoExc == Exc("None", <<>>)

(* utils.handle_api_error: never returns; raises the classified failure    *)
(* that carries the message of the exception it was given.                 *)
HandleApiError(e) == [type |-> "Classified", msg |-> e.msg, cause |-> <<e>>]

Names(e, token) == \E i \in DOMAIN e.msg : e.msg[i] = token

----------------------------------------------------------------------------
(* Pure parts of the three operations                                      *)

ESCALATION_POLICIES_URL == "/escalation_policies"

(* parsers.parse_escalation_policy on a well-formed record.                *)
ParseEscalationPolicy(r) == [id |-> r.id, normalized |-> TRUE]

(* utils.api_response_handler on a list and on a single object.            *)
ApiResponseHandlerList(rs, resource_name) ==
    (resource_name :> rs) @@ ("metadata" :> [count |-> Len(rs)])

ApiResponseHandlerOne(r, resource_name) ==
    (resource_name :> r) @@ ("metadata" :> [count |-> 1])

PolicyIdInvalidOnlyNone(p) == ~p.present

(* "if not policy_id:"                                                     *)
PolicyIdInvalid(p) == ~TruthyStr(p)

(* "if not user_id:"                                                       *)
UserIdInvalid(u) == ~TruthyStr(u)

BuildParamsLimitNotNone(query, user_ids, team_ids, limit) ==
    (IF TruthyStr(query) THEN ("query" :> query.val) ELSE EmptyDict)
    @@ (IF TruthyList(user_ids) THEN ("user_ids[]" :> user_ids.val) ELSE EmptyDict)
    @@ (IF TruthyList(team_ids) THEN ("team_ids[]" :> team_ids.val) ELSE EmptyDict)
    @@ (IF limit.present THEN ("limit" :> limit.val) ELSE EmptyDict)

(* params = {}; if query: ...; if user_ids: ...; if team_ids: ...;         *)
(* if limit: ...                                                           *)
BuildParams(query, user_ids, team_ids, limit) ==
    (IF TruthyStr(query) THEN ("query" :> query.val) ELSE EmptyDict)
    @@ (IF TruthyList(user_ids) THEN ("user_ids[]" :> user_ids.val) ELSE EmptyDict)
    @@ (IF TruthyList(team_ids) THEN ("team_ids[]" :> team_ids.val) ELSE EmptyDict)
    @@ (IF TruthyInt(limit) THEN ("limit" :> limit.val) ELSE EmptyDict)

ShowPathCollection(id) == <<ESCALATION_POLICIES_URL>>

(* f"{ESCALATION_POLICIES_URL}/{policy_id}"                                *)
ShowPath(id) == <<ESCALATION_POLICIES_URL, "/", id>>

ListPath == <<ESCALATION_POLICIES_URL>>

MissingFieldErrorNoId(id) ==
    Exc("RuntimeError", <<"Failed to fetch escalation policy", ":",
                          "Response missing", "escalation_policy", "field">>)

(* RuntimeError(f"Failed to fetch escalation policy {policy_id}:           *)
(* Response missing 'escalation_policy' field")                            *)
MissingFieldError(id) ==
    Exc("RuntimeError", <<"Failed to fetch escalation policy", id, ":",
                          "Response missing", "escalation_policy", "field">>)

FetchListArgsTeam(u) ==
    [query |-> NoneStr, user_ids |-> NoneList, team_ids |-> SomeList(<<u>>),
     limit |-> NoneInt]

(* list_escalation_policies(user_ids=[user_id])                            *)
FetchListArgs(u) ==
    [query |-> NoneStr, user_ids |-> SomeList(<<u>>), team_ids |-> NoneList,
     limit |-> NoneInt]

ParsedPrepend(ps, r) == <<ParseEscalationPolicy(r)>> \o ps

(* one element of [parse_escalation_policy(result=result) for result in    *)
(* response]                                                               *)
ParsedAppend(ps, r) == Append(ps, ParseEscalationPolicy(r))

(* [result['id'] for result in results['escalation_policies']]             *)
ProjectIds(res) ==
    [i \in DOMAIN res["escalation_policies"] |-> res["escalation_policies"][i].id]

Returned(v) == [kind |-> "return", value |-> v]
Raised(e) == [kind |-> "raise", value |-> e]
NoOutcome == [kind |-> "none", value |-> <<>>]

----------------------------------------------------------------------------
(* Initial state: no operation has been called.                            *)

Init ==
    /\ pc = "idle"
    /\ top = "none"
    /\ listArgs = [query |-> NoneStr, user_ids |-> NoneList,
                   team_ids |-> NoneList, limit |-> NoneInt]
    /\ policy_id = NoneStr
    /\ user_id = NoneStr
    /\ params = EmptyDict
    /\ response = EmptyDict
    /\ responded = FALSE
    /\ parsed = <<>>
    /\ idx = 1
    /\ exc = NoExc
    /\ results = EmptyDict
    /\ outcome = NoOutcome
    /\ clientCalls = 0
    /\ requests = <<>>
    /\ parseCalls = <<>>
    /\ routerCalls = <<>>

----------------------------------------------------------------------------
(* Calls from the outside                                                  *)

CallListEscalationPolicies ==
    /\ pc = "idle"
    /\ \E q \in QueryArgs, u \in UserIdsArgs, t \in TeamIdsArgs, l \in LimitArgs :
          listArgs' = [query |-> q, user_ids |-> u, team_ids |-> t, limit |-> l]
    /\ top' = "list"
    /\ pc' = "L_client"
    /\ UNCHANGED <<policy_id, user_id, params, response, responded, parsed, idx,
                   exc, results, outcome, clientCalls, requests, parseCalls,
                   routerCalls>>

CallShowEscalationPolicy ==
    /\ pc = "idle"
    /\ \E p \in PolicyIdArgs : policy_id' = p
    /\ top' = "show"
    /\ pc' = "S_check"
    /\ UNCHANGED <<listArgs, user_id, params, response, responded, parsed, idx,
                   exc, results, outcome, clientCalls, requests, parseCalls,
                   routerCalls>>

CallFetchEscalationPolicyIds ==
    /\ pc = "idle"
    /\ \E u \in UserIdArgs : user_id' = u
    /\ top' = "fetch"
    /\ pc' = "F_check"
    /\ UNCHANGED <<listArgs, policy_id, params, response, responded, parsed, idx,
                   exc, results, outcome, clientCalls, requests, parseCalls,
                   routerCalls>>

----------------------------------------------------------------------------
(* list_escalation_policies                                                *)

(* An exception leaves list_escalation_policies: to the outside caller, or *)
(* into the try block of fetch_escalation_policy_ids.                      *)
ListRaises(e) ==
    IF top = "fetch"
    THEN pc' = "F_except" /\ exc' = e /\ UNCHANGED <<outcome, results>>
    ELSE pc' = "done" /\ outcome' = Raised(e) /\ UNCHANGED <<exc, results>>

(* list_escalation_policies returns its envelope.                          *)
ListReturns(env) ==
    IF top = "fetch"
    THEN pc' = "F_project" /\ results' = env /\ UNCHANGED <<outcome, exc>>
    ELSE pc' = "done" /\ outcome' = Returned(env) /\ UNCHANGED <<exc, results>>

(* pd_client = client.get_api_client(), outside the try block              *)
ListGetClient ==
    /\ pc = "L_client"
    /\ clientCalls' = clientCalls + 1
    /\ \/ pc' = "L_params" /\ UNCHANGED <<exc, results, outcome>>
       \/ ListRaises(ClientInitError)
    /\ UNCHANGED <<top, listArgs, policy_id, user_id, params, response, responded,
                   parsed, idx, requests, parseCalls, routerCalls>>

ListBuildParams ==
    /\ pc = "L_params"
    /\ params' = BuildParams(listArgs.query, listArgs.user_ids, listArgs.team_ids,
                             listArgs.limit)
    /\ pc' = "L_list_all"
    /\ UNCHANGED <<top, listArgs, policy_id, user_id, response, responded, parsed,
                   idx, exc, results, outcome, clientCalls, requests, parseCalls,
                   routerCalls>>

(* response = pd_client.list_all(ESCALATION_POLICIES_URL, params=params)   *)
ListAll ==
    /\ pc = "L_list_all"
    /\ requests' = Append(requests, [method |-> "list_all", path |-> ListPath,
                                     params |-> params])
    /\ \/ /\ \E r \in ListResponses : response' = r
          /\ responded' = TRUE
          /\ parsed' = <<>>
          /\ idx' = 1
          /\ pc' = "L_parse"
          /\ UNCHANGED exc
       \/ /\ exc' = ClientError
          /\ pc' = "L_except"
          /\ UNCHANGED <<response, responded, parsed, idx>>
    /\ UNCHANGED <<top, listArgs, policy_id, user_id, params, results, outcome,
                   clientCalls, parseCalls, routerCalls>>

(* the list comprehension over response, one record per step               *)
ListParse ==
    /\ pc = "L_parse"
    /\ idx <= Len(response)
    /\ parseCalls' = Append(parseCalls, response[idx])
    /\ IF response[idx].malformed
       THEN /\ exc' = ParseError
            /\ pc' = "L_except"
            /\ UNCHANGED <<parsed, idx>>
       ELSE /\ parsed' = ParsedAppend(parsed, response[idx])
            /\ idx' = idx + 1
            /\ UNCHANGED <<pc, exc>>
    /\ UNCHANGED <<top, listArgs, policy_id, user_id, params, response, responded,
                   results, outcome, clientCalls, requests, routerCalls>>

(* return utils.api_response_handler(results=parsed_response,              *)
(*                                   resource_name='escalation_policies')  *)
ListEnvelope ==
    /\ pc = "L_parse"
    /\ idx > Len(response)
    /\ ListReturns(ApiResponseHandlerList(parsed, "escalation_policies"))
    /\ UNCHANGED <<top, listArgs, policy_id, user_id, params, response, responded,
                   parsed, idx, clientCalls, requests, parseCalls, routerCalls>>

(* except Exception as e: utils.handle_api_error(e)                        *)
ListExcept ==
    /\ pc = "L_except"
    /\ routerCalls' = Append(routerCalls, [by |-> "list", exc |-> exc])
    /\ ListRaises(HandleApiError(exc))
    /\ UNCHANGED <<top, listArgs, policy_id, user_id, params, response, responded,
                   parsed, idx, clientCalls, requests, parseCalls>>

----------------------------------------------------------------------------
(* show_escalation_policy                                                  *)

(* if not policy_id: raise ValueError("policy_id cannot be empty")         *)
ShowCheck ==
    /\ pc = "S_check"
    /\ IF PolicyIdInvalid(policy_id)
       THEN pc' = "done" /\ outcome' = Raised(PolicyIdEmpty)
       ELSE pc' = "S_client" /\ UNCHANGED outcome
    /\ UNCHANGED <<top, listArgs, policy_id, user_id, params, response, responded,
                   parsed, idx, exc, results, clientCalls, requests, parseCalls,
                   routerCalls>>

(* pd_client = client.get_api_client(), outside the try block              *)
ShowGetClient ==
    /\ pc = "S_client"
    /\ clientCalls' = clientCalls + 1
    /\ \/ pc' = "S_jget" /\ UNCHANGED outcome
       \/ pc' = "done" /\ outcome' = Raised(ClientInitError)
    /\ UNCHANGED <<top, listArgs, policy_id, user_id, params, response, responded,
                   parsed, idx, exc, results, requests, parseCalls, routerCalls>>

(* response = pd_client.jget(f"{ESCALATION_POLICIES_URL}/{policy_id}")     *)
ShowJget ==
    /\ pc = "S_jget"
    /\ requests' = Append(requests, [method |-> "jget",
                                     path |-> ShowPath(policy_id.val),
                                     params |-> EmptyDict])
    /\ \/ /\ \E b \in Bodies : response' = b
          /\ responded' = TRUE
          /\ pc' = "S_extract"
          /\ UNCHANGED exc
       \/ /\ exc' = ClientError
          /\ pc' = "S_except"
          /\ UNCHANGED <<response, responded>>
    /\ UNCHANGED <<top, listArgs, policy_id, user_id, params, parsed, idx, results,
                   outcome, clientCalls, parseCalls, routerCalls>>

(* try: policy_data = response['escalation_policy']                        *)
(* except KeyError: raise RuntimeError(...)                                *)
ShowExtract ==
    /\ pc = "S_extract"
    /\ IF "escalation_policy" \in DOMAIN response
       THEN /\ parsed' = <<response["escalation_policy"]>>
            /\ pc' = "S_parse"
            /\ UNCHANGED exc
       ELSE /\ exc' = MissingFieldError(policy_id.val)
            /\ pc' = "S_except"
            /\ UNCHANGED parsed
    /\ UNCHANGED <<top, listArgs, policy_id, user_id, params, response, responded,
                   idx, results, outcome, clientCalls, requests, parseCalls,
                   routerCalls>>

(* return utils.api_response_handler(                                      *)
(*     results=parse_escalation_policy(result=policy_data),                *)
(*     resource_name='escalation_policy')                                  *)
ShowParseAndEnvelope ==
    /\ pc = "S_parse"
    /\ parseCalls' = Append(parseCalls, parsed[1])
    /\ IF parsed[1].malformed
       THEN /\ exc' = ParseError
            /\ pc' = "S_except"
            /\ UNCHANGED outcome
       ELSE /\ outcome' = Returned(ApiResponseHandlerOne(
                               ParseEscalationPolicy(parsed[1]), "escalation_policy"))
            /\ pc' = "done"
            /\ UNCHANGED exc
    /\ UNCHANGED <<top, listArgs, policy_id, user_id, params, response, responded,
                   parsed, idx, results, clientCalls, requests, routerCalls>>

(* except Exception as e: utils.handle_api_error(e)                        *)
ShowExcept ==
    /\ pc = "S_except"
    /\ routerCalls' = Append(routerCalls, [by |-> "show", exc |-> exc])
    /\ outcome' = Raised(HandleApiError(exc))
    /\ pc' = "done"
    /\ UNCHANGED <<top, listArgs, policy_id, user_id, params, response, responded,
                   parsed, idx, exc, results, clientCalls, requests, parseCalls>>

----------------------------------------------------------------------------
(* fetch_escalation_policy_ids                                             *)

FetchCheckInsideTry ==
    /\ pc = "F_check"
    /\ IF UserIdInvalid(user_id)
       THEN pc' = "F_except" /\ exc' = UserIdEmpty /\ UNCHANGED <<outcome, listArgs>>
       ELSE /\ listArgs' = FetchListArgs(user_id.val)
            /\ pc' = "L_client"
            /\ UNCHANGED <<outcome, exc>>
    /\ UNCHANGED <<top, policy_id, user_id, params, response, responded, parsed,
                   idx, results, clientCalls, requests, parseCalls, routerCalls>>

(* if not user_id: raise ValueError("user_id cannot be empty"), before the *)
(* try block; otherwise enter it and call list_escalation_policies.        *)
FetchCheck ==
    /\ pc = "F_check"
    /\ IF UserIdInvalid(user_id)
       THEN pc' = "done" /\ outcome' = Raised(UserIdEmpty) /\ UNCHANGED listArgs
       ELSE /\ listArgs' = FetchListArgs(user_id.val)
            /\ pc' = "L_client"
            /\ UNCHANGED outcome
    /\ UNCHANGED <<top, policy_id, user_id, params, response, responded, parsed,
                   idx, exc, results, clientCalls, requests, parseCalls,
                   routerCalls>>

(* return [result['id'] for result in results['escalation_policies']]      *)
FetchProject ==
    /\ pc = "F_project"
    /\ outcome' = Returned(ProjectIds(results))
    /\ pc' = "done"
    /\ UNCHANGED <<top, listArgs, policy_id, user_id, params, response, responded,
                   parsed, idx, exc, results, clientCalls, requests, parseCalls,
                   routerCalls>>

FetchExceptReraise ==
    /\ pc = "F_except"
    /\ outcome' = Raised(exc)
    /\ pc' = "done"
    /\ UNCHANGED <<top, listArgs, policy_id, user_id, params, response, responded,
                   parsed, idx, exc, results, clientCalls, requests, parseCalls,
                   routerCalls>>

(* except Exception as e: utils.handle_api_error(e)                        *)
FetchExcept ==
    /\ pc = "F_except"
    /\ routerCalls' = Append(routerCalls, [by |-> "fetch", exc |-> exc])
    /\ outcome' = Raised(HandleApiError(exc))
    /\ pc' = "done"
    /\ UNCHANGED <<top, listArgs, policy_id, user_id, params, response, responded,
                   parsed, idx, exc, results, clientCalls, requests, parseCalls>>

----------------------------------------------------------------------------

Next ==
    \/ CallListEscalationPolicies
    \/ CallShowEscalationPolicy
    \/ CallFetchEscalationPolicyIds
    \/ ListGetClient
    \/ ListBuildParams
    \/ ListAll
    \/ ListParse
    \/ ListEnvelope
    \/ ListExcept
    \/ ShowCheck
    \/ ShowGetClient
    \/ ShowJget
    \/ ShowExtract
    \/ ShowParseAndEnvelope
    \/ ShowExcept
    \/ FetchCheck
    \/ FetchProject
    \/ FetchExcept

Spec == Init /\ [][Next]_vars

----------------------------------------------------------------------------
(* Properties                                                              *)

EmptyIdCall ==
    \/ top = "show" /\ ~TruthyStr(policy_id)
    \/ top = "fetch" /\ ~TruthyStr(user_id)

NoMalformed == \A i \in DOMAIN response : ~response[i].malformed

(* C1: a call of show_escalation_policy or fetch_escalation_policy_ids     *)
(* whose identifier is empty or absent never invokes get_api_client, jget  *)
(* or list_all, never returns a value, and ends by raising ValueError.     *)
C1_EmptyIdNoClient ==
    EmptyIdCall =>
        /\ clientCalls = 0
        /\ requests = <<>>
        /\ outcome.kind # "return"
        /\ pc \in {"S_check", "F_check", "done"}
        /\ pc = "done" => outcome.kind = "raise" /\ outcome.value.type = "ValueError"

C1_Witness ==
    /\ top = "show" /\ policy_id = SomeStr("") /\ pc = "done"
    /\ outcome.kind = "raise"

ShowSucceeds ==
    /\ top = "show" /\ TruthyStr(policy_id) /\ responded
    /\ "escalation_policy" \in DOMAIN response
    /\ ~response["escalation_policy"].malformed

(* C2: when policy_id is non-empty, the body has the escalation_policy     *)
(* field and normalization succeeds, show_escalation_policy has issued     *)
(* exactly one request, a jget of /escalation_policies/{policy_id}, and    *)
(* returns the envelope keyed escalation_policy holding the normalized     *)
(* object, with metadata.count = 1.                                        *)
C2_ShowOneRequestCountOne ==
    /\ top = "show" => Len(requests) <= 1
    /\ (ShowSucceeds /\ pc = "done") =>
        /\ requests = << [method |-> "jget",
                          path |-> <<"/escalation_policies", "/", policy_id.val>>,
                          params |-> EmptyDict] >>
        /\ outcome.kind = "return"
        /\ DOMAIN outcome.value = {"escalation_policy", "metadata"}
        /\ outcome.value["escalation_policy"]
              = ParseEscalationPolicy(response["escalation_policy"])
        /\ outcome.value["metadata"].count = 1

C2_Witness ==
    /\ ShowSucceeds /\ pc = "done" /\ policy_id = SomeStr("EP2")
    /\ outcome.kind = "return"

ShowFieldMissing ==
    /\ top = "show" /\ responded
    /\ "escalation_policy" \notin DOMAIN response

ExpectedKeys(a) ==
    (IF TruthyStr(a.query) THEN {"query"} ELSE {})
    \cup (IF TruthyList(a.user_ids) THEN {"user_ids[]"} ELSE {})
    \cup (IF TruthyList(a.team_ids) THEN {"team_ids[]"} ELSE {})
    \cup (IF TruthyInt(a.limit) THEN {"limit"} ELSE {})

ParamsMatch(p, a) ==
    /\ DOMAIN p = ExpectedKeys(a)
    /\ "query" \in DOMAIN p => p["query"] = a.query.val
    /\ "user_ids[]" \in DOMAIN p => p["user_ids[]"] = a.user_ids.val
    /\ "team_ids[]" \in DOMAIN p => p["team_ids[]"] = a.team_ids.val
    /\ "limit" \in DOMAIN p => p["limit"] = a.limit.val
    /\ a.user_ids = SomeList(<<>>) => "user_ids[]" \notin DOMAIN p
    /\ a.limit = SomeInt(0) => "limit" \notin DOMAIN p
    /\ a.team_ids = SomeList(<<"T1", "T2">>) => p["team_ids[]"] = <<"T1", "T2">>
    /\ (~a.query.present /\ ~a.user_ids.present /\ ~a.team_ids.present
           /\ ~a.limit.present) => DOMAIN p = {}

C5_EmptyListRaisesValueError ==
    (/\ top = "list" /\ pc = "done" /\ responded /\ NoMalformed
     /\ (listArgs.user_ids = SomeList(<<>>) \/ listArgs.team_ids = SomeList(<<>>)))
        => outcome.kind = "raise" /\ outcome.value.type = "ValueError"

ListSucceeds == top = "list" /\ responded /\ NoMalformed

(* C6: when list_all and every normalization succeed, the envelope         *)
(* returned by list_escalation_policies is keyed escalation_policies and   *)
(* holds the normalized form of each raw record, in the order list_all     *)
(* returned them, and metadata.count is the length of that list.           *)
C6_ListEnvelopeComplete ==
    (ListSucceeds /\ pc = "done") =>
        /\ outcome.kind = "return"
        /\ DOMAIN outcome.value = {"escalation_policies", "metadata"}
        /\ Len(outcome.value["escalation_policies"]) = Len(response)
        /\ \A i \in DOMAIN response :
              outcome.value["escalation_policies"][i]
                  = ParseEscalationPolicy(response[i])
        /\ outcome.value["metadata"].count
              = Len(outcome.value["escalation_policies"])

C6_Witness ==
    /\ ListSucceeds /\ pc = "done" /\ outcome.kind = "return"
    /\ Len(response) = MaxRecords
    /\ response[1].id # response[2].id

FetchSucceeds == top = "fetch" /\ TruthyStr(user_id) /\ responded /\ NoMalformed

(* C7: for a non-empty user_id, fetch_escalation_policy_ids calls          *)
(* list_escalation_policies with user_ids = [user_id] and no other filter, *)
(* list_all receives only user_ids[], and the value returned is the id of  *)
(* each policy of the returned envelope, in order (empty when the list     *)
(* operation returned no records).                                         *)
C7_FetchDelegatesAndProjects ==
    (top = "fetch" /\ TruthyStr(user_id) /\ pc # "F_check") =>
        /\ listArgs = [query |-> NoneStr, user_ids |-> SomeList(<<user_id.val>>),
                       team_ids |-> NoneList, limit |-> NoneInt]
        /\ \A i \in DOMAIN requests :
              /\ requests[i].method = "list_all"
              /\ requests[i].params = ("user_ids[]" :> <<user_id.val>>)
        /\ (pc = "done" /\ responded /\ NoMalformed) =>
              /\ outcome.kind = "return"
              /\ outcome.value = [i \in DOMAIN response |-> response[i].id]
              /\ outcome.value
                    = [i \in DOMAIN results["escalation_policies"] |->
                          results["escalation_policies"][i].id]
              /\ response = <<>> => outcome.value = <<>>

C7_Witness ==
    /\ FetchSucceeds /\ pc = "done" /\ user_id = SomeStr("U1")
    /\ outcome = Returned(<<"EP1", "EP2">>)

C7_WitnessEmpty ==
    /\ FetchSucceeds /\ pc = "done" /\ response = <<>>
    /\ outcome = Returned(<<>>)

(* C8 as stated: the ValueError for an empty identifier reaches the caller *)
(* of show_escalation_policy directly, without handle_api_error, whereas   *)
(* in fetch_escalation_policy_ids it is caught by the function's own       *)
(* handler and passed to handle_api_error.                                 *)
C8_FetchValidationRerouted ==
    /\ (top = "show" /\ ~TruthyStr(policy_id) /\ pc = "done") =>
          outcome = Raised(PolicyIdEmpty) /\ routerCalls = <<>>
    /\ (top = "fetch" /\ ~TruthyStr(user_id) /\ pc = "done") =>
          /\ routerCalls = << [by |-> "fetch", exc |-> UserIdEmpty] >>
          /\ outcome = Raised(HandleApiError(UserIdEmpty))

(* C8 amended: in both show_escalation_policy and                          *)
(* fetch_escalation_policy_ids the ValueError for an empty identifier      *)
(* reaches the caller directly; handle_api_error is not invoked.           *)
C8_ValidationRaisedDirectly ==
    /\ (top = "show" /\ ~TruthyStr(policy_id) /\ pc = "done") =>
          outcome = Raised(PolicyIdEmpty) /\ routerCalls = <<>>
    /\ (top = "fetch" /\ ~TruthyStr(user_id) /\ pc = "done") =>
          outcome = Raised(UserIdEmpty) /\ routerCalls = <<>>

C8_Witness ==
    /\ top = "fetch" /\ user_id = SomeStr("") /\ pc = "done"
    /\ outcome.kind = "raise"

CompleteResult ==
    /\ outcome.kind = "return"
    /\ responded
    /\ top = "list" =>
          /\ Len(outcome.value["escalation_policies"]) = Len(response)
          /\ outcome.value["metadata"].count = Len(response)
    /\ top = "show" => "escalation_policy" \in DOMAIN outcome.value
    /\ top = "fetch" => Len(outcome.value) = Len(response)

ClassifiedOrInvalidArgument ==
    /\ outcome.kind = "raise"
    /\ outcome.value.type \in {"Classified", "ValueError"}

(* C9: every call ends either by returning a complete result built from    *)
(* all records or by raising an error that handle_api_error produced or    *)
(* that is the ValueError of the identifier check, whatever                *)
(* get_api_client, list_all/jget and the normalizer do.                    *)
C9_EnvelopeOrClassifiedError ==
    pc = "done" => (CompleteResult \/ ClassifiedOrInvalidArgument)

DelegatedListFailed ==
    /\ top = "fetch" /\ pc = "done"
    /\ requests # <<>>
    /\ ~responded \/ ~NoMalformed

(* C10: when list_all or a normalization raises inside the list operation  *)
(* called by fetch_escalation_policy_ids, handle_api_error is invoked      *)
(* exactly twice: first by list_escalation_policies with the original      *)
(* exception, then by fetch_escalation_policy_ids with the failure the     *)
(* first invocation raised; the caller receives what the second invocation *)
(* raised and no id sequence.                                              *)
C10_RouterInvokedTwice ==
    DelegatedListFailed =>
        /\ Len(routerCalls) = 2
        /\ routerCalls[1] = [by |-> "list",
                             exc |-> IF responded THEN ParseError ELSE ClientError]
        /\ routerCalls[2] = [by |-> "fetch",
                             exc |-> HandleApiError(routerCalls[1].exc)]
        /\ outcome = Raised(HandleApiError(routerCalls[2].exc))
        /\ outcome.kind # "return"

C10_Witness ==
    /\ DelegatedListFailed /\ responded /\ Len(response) = MaxRecords
    /\ ~response[1].malformed
    /\ Len(routerCalls) = 2

====
